---- MODULE Spec2Model ----
(***************************************************************************)
(* A model of SnippetsVault (src/src/main.rs): the snippet naming and      *)
(* content formatter, the editor resolver and the command dispatcher with  *)
(* its external process invocations.                                       *)
(*                                                                         *)
(* A string is a sequence of pieces.  A piece is one character, or a run of *)
(* the program's literal text: "### Tags: " is one piece.  Every character  *)
(* the program's inputs are made of, and every character a name or a        *)
(* document is split at ("_", the line break, the backquote), is a piece of *)
(* its own, so that joining, formatting and splitting are computed on them. *)
(***************************************************************************)
EXTENDS Integers, Sequences, FiniteSets, TLC

VARIABLES
    fs,      \* the filesystem: path -> [kind, content] for every existing entry
    fs0,     \* the filesystem as it was when the current invocation started
    pc,      \* the position of the running invocation
    cmd,     \* the parsed command line of the running invocation
    log,     \* what the running invocation did so far, in order
    status,  \* "none" | "running" | "returned" | "panicked"
    clock,   \* the wall clock, in seconds after BaseSecond
    runs,    \* number of invocations started
    editor   \* the value get_default_editor last returned

vars == <<fs, fs0, pc, cmd, log, status, clock, runs, editor>>

(***************************************************************************)
(* Bounds of the model.                                                    *)
(***************************************************************************)
MaxLen == 1      \* longest language / tag / search term, in characters
MaxTags == 2     \* longest tag list
MaxTick == 1     \* the clock advances at most this many seconds
MaxRuns == 2     \* invocations of the tool in one behaviour

\* The backquote (U+0060), which a TLA+ string literal cannot hold.
BQ == "^"

\* Characters a language may be made of: a letter, the separator of the
\* filename parts, a line break and the fence character of markdown.
LangChars == {"x", "_", "\n", BQ}
\* Characters a tag or a search term may be made of.
TagChars == {"x", "_", "\n"}

StringsOver(chars, n) == UNION {[1..k -> chars] : k \in 0..n}
ListsOver(elems, n) == UNION {[1..k -> elems] : k \in 0..n}

(***************************************************************************)
(* String helpers (std: concatenation, join, format!).                     *)
(***************************************************************************)
\* [String]::join(sep): the first part, then sep and a part for each other one.
RECURSIVE JoinFrom(_, _, _)
JoinFrom(parts, sep, i) ==
    IF i > Len(parts) THEN <<>>
    ELSE sep \o parts[i] \o JoinFrom(parts, sep, i + 1)

Join(parts, sep) ==
    IF parts = <<>> THEN <<>> ELSE parts[1] \o JoinFrom(parts, sep, 2)

Digit(n) == <<"0", "1", "2", "3", "4", "5", "6", "7", "8", "9">>[n + 1]
Pad2(n) == <<Digit(n \div 10), Digit(n % 10)>>

(***************************************************************************)
(* Program constants.                                                      *)
(***************************************************************************)
SNIPPET_DIR == <<"Documents/myObsidianDoc/mysnippetsCollection">>

\* env::var("HOME") of the invoking user; the model fixes it to /home/u.
home_dir == <<"/home/u">>

\* format!("{}/{}", home_dir, SNIPPET_DIR)
snippet_dir == home_dir \o <<"/">> \o SNIPPET_DIR

\* Local::now().format("%Y-%m-%d-%H%M%S"): the clock starts one second before
\* noon of a fixed day, so that a tick changes the hour, minute and second fields.
BaseSecond == 11 * 3600 + 59 * 60 + 59
Timestamp(t) ==
    LET s == BaseSecond + t IN
    <<"2024-01-01-">>
        \o Pad2(s \div 3600) \o Pad2((s \div 60) % 60) \o Pad2(s % 60)

(***************************************************************************)
(* create_snippet: the filename and the content.                           *)
(***************************************************************************)
\* The parts with the language put before the timestamp.
filename_parts_language_first(language, tags, timestamp) ==
    <<language, timestamp>> \o tags

\* vec![timestamp, language] extended by the tags
filename_parts(language, tags, timestamp) == <<timestamp, language>> \o tags

\* The parts joined with nothing between them.
PartSepNone == <<>>

\* The separator the parts are joined with.
PartSep == <<"_">>

\* The name without the timestamp.
filename_without_timestamp(language, tags, timestamp) ==
    snippet_dir \o <<"/snippet", "_">>
        \o Join(<<language>> \o tags, PartSep)
        \o <<".md">>

\* format!("{}/snippet_{}.md", snippet_dir, filename_parts.join("_"))
filename(language, tags, timestamp) ==
    snippet_dir \o <<"/snippet", "_">>
        \o Join(filename_parts(language, tags, timestamp), PartSep)
        \o <<".md">>

\* tags.join(", ")
tags_line(tags) == Join(tags, <<", ">>)

\* A fence without a label.
fence_label_none(language) == <<>>

\* The label put after the opening fence.
fence_label(language) == language

\* The format! template of lines 120-123, the language put in twice and the
\* joined tags once.
content(language, tags) ==
    <<"# Title: ">>
        \o language
        \o <<" - Snippet", "\n", "# ---", "\n", "### Tags: ">>
        \o tags_line(tags)
        \o <<"\n", "\n", "### Content", "\n", "\n", BQ, BQ, BQ>>
        \o fence_label(language)
        \o <<"\n", "\n", BQ, BQ, BQ, "\n", "### Link:", "\n", "### Note:", "\n">>

(***************************************************************************)
(* The filesystem.                                                         *)
(***************************************************************************)
Dir == [kind |-> "dir", content |-> <<>>]
File(c) == [kind |-> "file", content |-> c]

\* Path::new(p).exists(): an entry of any kind is there.
Exists(f, p) == p \in DOMAIN f

\* fs::write(path, c) when it succeeds: creates the file or replaces its content.
WriteFile(f, p, c) == [q \in DOMAIN f \cup {p} |-> IF q = p THEN File(c) ELSE f[q]]

\* fs::create_dir_all(p) when it succeeds.
CreateDirAll(f, p) == [q \in DOMAIN f \cup {p} |-> IF q = p THEN Dir ELSE f[q]]

NoCmd == [name |-> "none"]

\* One step of an invocation, as the log keeps it: a filesystem call, a line
\* printed (msg), a process spawned or waited for (prog, its argument, its
\* exit code).
Ev(ev, msg, prog, arg, code) ==
    [ev |-> ev, msg |-> msg, prog |-> prog, arg |-> arg, code |-> code]

(***************************************************************************)
(* get_default_editor.                                                     *)
(***************************************************************************)
editor_paths ==
    << <<"$HOME", "/dev/nvim/bin/nvim">>,
       <<"$HOME", "/dev/neovim/build/bin/nvim">>,
       <<"$HOME", "/dev/neovim/bin/nvim">>,
       <<"/usr/local/bin/nvim">> >>

\* shellexpand::tilde: a leading "~" becomes the home directory; nothing else
\* of the path is touched.
tilde(path) ==
    IF path # <<>> /\ Head(path) = "~" THEN home_dir \o Tail(path) ELSE path

\* The loop of lines 325-330 from candidate i on, then the fallback of line 332.
RECURSIVE ProbeFrom(_, _)
ProbeFrom(f, i) ==
    IF i > Len(editor_paths) THEN <<"nvim">>
    ELSE LET expanded_path == tilde(editor_paths[i]) IN
         IF Exists(f, expanded_path) THEN expanded_path ELSE ProbeFrom(f, i + 1)

get_default_editor(f) == ProbeFrom(f, 1)

(***************************************************************************)
(* The formatter on its own: create_snippet's naming, content and write,   *)
(* for every input within the bounds, on a filesystem that has the root.   *)
(***************************************************************************)
FmtLanguages == StringsOver(LangChars, MaxLen)
FmtTags == ListsOver(StringsOver(TagChars, MaxLen), MaxTags)
FmtTimestamps == {Timestamp(0), Timestamp(MaxTick)}

FmtInputs ==
    [name : {"create"}, language : FmtLanguages, tags : FmtTags,
     timestamp : FmtTimestamps]

RootOnly == [q \in {snippet_dir} |-> Dir]

FmtInit ==
    /\ cmd \in FmtInputs
    /\ fs = RootOnly
    /\ fs0 = RootOnly
    /\ pc = "f_input"
    /\ log = <<>>
    /\ status = "running"
    /\ clock = 0
    /\ runs = 1
    /\ editor = <<>>

\* Lines 113-127: build the filename and the content, write the file.
FormatSnippet ==
    /\ pc = "f_input"
    /\ fs' = WriteFile(fs, filename(cmd.language, cmd.tags, cmd.timestamp),
                       content(cmd.language, cmd.tags))
    /\ log' = log \o <<Ev("write", "", <<>>,
                           filename(cmd.language, cmd.tags, cmd.timestamp), 0)>>
    /\ pc' = "f_written"
    /\ UNCHANGED <<fs0, cmd, status, clock, runs, editor>>

FmtNext == FormatSnippet

FmtSpec == FmtInit /\ [][FmtNext]_vars

(***************************************************************************)
(* Reading a name and a document back: what the claims about the formatter *)
(* are stated with.                                                        *)
(***************************************************************************)
RECURSIVE SplitFrom(_, _, _, _)
SplitFrom(s, c, i, cur) ==
    IF i > Len(s) THEN <<cur>>
    ELSE IF s[i] = c THEN <<cur>> \o SplitFrom(s, c, i + 1, <<>>)
    ELSE SplitFrom(s, c, i + 1, Append(cur, s[i]))

\* The pieces of s between the occurrences of the character c.
SplitAt(s, c) == SplitFrom(s, c, 1, <<>>)

Has(s, c) == \E i \in 1..Len(s) : s[i] = c
StartsWith(s, prefix) ==
    /\ Len(s) >= Len(prefix)
    /\ SubSeq(s, 1, Len(prefix)) = prefix
DropPrefix(s, n) == SubSeq(s, n + 1, Len(s))

NamePrefix == snippet_dir \o <<"/snippet", "_">>
NameSuffix == <<".md">>

\* A snippet path without the directory, the "snippet_" prefix and ".md".
Stem(path) == SubSeq(path, Len(NamePrefix) + 1, Len(path) - Len(NameSuffix))

RECURSIVE TagSuffix(_)
TagSuffix(tags) ==
    IF tags = <<>> THEN <<>>
    ELSE <<"_">> \o Head(tags) \o TagSuffix(Tail(tags))

\* <HOME>/<snippet_root>/snippet_<timestamp>_<language>[_<tag1>..._<tagN>].md
ExpectedPath(c) ==
    home_dir \o <<"/">> \o SNIPPET_DIR
        \o <<"/snippet", "_">>
        \o c.timestamp \o <<"_">> \o c.language \o TagSuffix(c.tags)
        \o <<".md">>

\* The paths whose entry differs between two filesystems.
Changed(f, g) ==
    {p \in DOMAIN f \cup DOMAIN g :
        \/ p \notin DOMAIN f
        \/ p \notin DOMAIN g
        \/ f[p] # g[p]}

Events(kind) == {i \in 1..Len(log) : log[i].ev = kind}

\* The path the invocation wrote: the only one that changed.
WrittenPath == CHOOSE p \in Changed(fs0, fs) : TRUE

\* markdown: the lines of a document
Lines(doc) == SplitAt(doc, "\n")

RECURSIVE LeadingBQ(_)
LeadingBQ(line) ==
    IF line # <<>> /\ Head(line) = BQ THEN 1 + LeadingBQ(Tail(line)) ELSE 0

\* What follows the backquotes of a fence line.
InfoString(line) == DropPrefix(line, LeadingBQ(line))

\* A line opens a fenced block when it starts with three or more backquotes
\* and has none after them.
OpensFence(line) == LeadingBQ(line) >= 3 /\ ~Has(InfoString(line), BQ)

\* A line closes a block opened with n backquotes when it is n or more
\* backquotes and nothing else.
ClosesFence(line, n) == LeadingBQ(line) = Len(line) /\ Len(line) >= n

\* The info-strings of the fenced blocks of the lines from i on; open is the
\* length of the fence of the block the scan is in, 0 outside a block.  A block
\* that is not closed runs to the end of the document.
RECURSIVE BlocksFrom(_, _, _)
BlocksFrom(lines, i, open) ==
    IF i > Len(lines) THEN <<>>
    ELSE IF open = 0
         THEN IF OpensFence(lines[i])
              THEN <<InfoString(lines[i])>> \o BlocksFrom(lines, i + 1, LeadingBQ(lines[i]))
              ELSE BlocksFrom(lines, i + 1, 0)
         ELSE IF ClosesFence(lines[i], open)
              THEN BlocksFrom(lines, i + 1, 0)
              ELSE BlocksFrom(lines, i + 1, open)

FencedBlocks(doc) == BlocksFrom(Lines(doc), 1, 0)

RECURSIVE TagsText(_)
TagsText(tags) ==
    IF tags = <<>> THEN <<>>
    ELSE IF Len(tags) = 1 THEN Head(tags)
    ELSE Head(tags) \o <<", ">> \o TagsText(Tail(tags))

TitleLine(language) ==
    <<"# Title: ">> \o language \o <<" - Snippet">>
TagsPrefix == <<"### Tags: ">>
ContentLine == <<"### Content">>
LinkLine == <<"### Link:">>
NoteLine == <<"### Note:">>

\* The document has exactly one fenced block, labelled with the language, one
\* tags line, holding the tags joined in order, and its sections in the order
\* title, tags, Content, fenced block, Link, Note.
DocumentOK(doc, language, tags) ==
    LET lines == Lines(doc)
        tagLines == {i \in 1..Len(lines) : StartsWith(lines[i], TagsPrefix)}
        fences == {i \in 1..Len(lines) : lines[i] = <<BQ, BQ, BQ>> \o language}
        idx == 1..Len(lines)
    IN  /\ FencedBlocks(doc) = <<language>>
        /\ Cardinality(tagLines) = 1
        /\ \A i \in tagLines : lines[i] = TagsPrefix \o TagsText(tags)
        /\ \E t \in idx : /\ lines[t] = TitleLine(language)
             /\ \E g \in tagLines : /\ t < g
               /\ \E c \in idx : /\ g < c /\ lines[c] = ContentLine
                 /\ \E f \in fences : /\ c < f
                   /\ \E l \in idx : /\ f < l /\ lines[l] = LinkLine
                     /\ \E n \in idx : l < n /\ lines[n] = NoteLine

(***************************************************************************)
(* Claims about the formatter, checked under FmtSpec.                      *)
(***************************************************************************)
Written == pc = "f_written"

\* C1: create_snippet writes exactly one file, and its path is
\* <HOME>/<snippet_root>/snippet_<timestamp>_<language>.md without tags and
\* <HOME>/<snippet_root>/snippet_<timestamp>_<language>_<tag1>_..._<tagN>.md with
\* tags, the tags in the given order and one underscore between the parts.
C1_Path ==
    Written =>
        /\ Changed(fs0, fs) = {ExpectedPath(cmd)}
        /\ fs[ExpectedPath(cmd)].kind = "file"
        /\ Cardinality(Events("write")) = 1
        /\ \A i \in Events("write") : log[i].arg = ExpectedPath(cmd)

C1_Witness ==
    /\ Written
    /\ Len(cmd.tags) = 2
    /\ cmd.tags[1] # cmd.tags[2]
    /\ cmd.language = <<"x">>
    /\ ExpectedPath(cmd) \in DOMAIN fs

\* C2 as stated: the filename is injective with respect to (timestamp,
\* language, tags): an input with the name just written is the input written.
C2_Injective ==
    Written =>
        \A other \in FmtInputs :
            filename(other.language, other.tags, other.timestamp) = WrittenPath
                => other = cmd

NoSeparator(c) ==
    /\ ~Has(c.language, "_")
    /\ \A i \in 1..Len(c.tags) : ~Has(c.tags[i], "_")

\* C2 amended: the filename is a function of (timestamp, language, tags), and
\* when neither the language nor a tag holds an underscore, splitting the name
\* at the underscores gives back the timestamp, the language and the tags in
\* order, so two such inputs with the same name are the same input.
C2_InjectiveWithoutSeparator ==
    (Written /\ NoSeparator(cmd)) =>
        SplitAt(Stem(WrittenPath), "_") = <<cmd.timestamp, cmd.language>> \o cmd.tags

C2_Witness ==
    /\ Written
    /\ NoSeparator(cmd)
    /\ Len(cmd.tags) = 2
    /\ cmd.tags[1] = <<>>
    /\ cmd.tags[2] = <<"x">>
    /\ SplitAt(Stem(WrittenPath), "_") = <<cmd.timestamp, cmd.language, <<>>, <<"x">>>>

\* C3 as stated: for every language and tag list the document written holds
\* exactly one fenced block, labelled with the language, a tags line with the
\* tags joined in order, and its sections in order.
C3_Document ==
    Written => DocumentOK(fs[WrittenPath].content, cmd.language, cmd.tags)

PlainText(c) ==
    /\ ~Has(c.language, "\n")
    /\ ~Has(c.language, BQ)
    /\ \A i \in 1..Len(c.tags) : ~Has(c.tags[i], "\n")

\* C3 amended: when the language holds no line break and no backquote and no
\* tag holds a line break, the document written holds exactly one fenced
\* block, opened by three backquotes and the language, a tags line with the
\* tags joined in order by ", ", and its sections in the order title, tags,
\* Content, fenced block, Link, Note.
C3_DocumentOfPlainText ==
    (Written /\ PlainText(cmd)) =>
        DocumentOK(fs[WrittenPath].content, cmd.language, cmd.tags)

C3_Witness ==
    /\ Written
    /\ PlainText(cmd)
    /\ cmd.language = <<"x">>
    /\ Len(cmd.tags) = 2
    /\ FencedBlocks(fs[WrittenPath].content) = <<cmd.language>>

(***************************************************************************)
(* The editor resolver on its own: get_default_editor on every filesystem  *)
(* over the paths it can depend on, each absent, a file or a directory.  A *)
(* candidate as written, "$HOME/...", is a path relative to the working    *)
(* directory; the same candidate under the home directory is another path. *)
(***************************************************************************)
\* The candidate with its home-directory placeholder replaced by the home directory.
ExpandHome(path) ==
    IF path # <<>> /\ Head(path) = "$HOME" THEN home_dir \o Tail(path) ELSE path

ProbePaths ==
    {editor_paths[i] : i \in 1..Len(editor_paths)}
        \cup {ExpandHome(editor_paths[i]) : i \in 1..Len(editor_paths)}

EditorInit ==
    /\ \E S \in SUBSET ProbePaths : fs \in [S -> {Dir, File(<<>>)}]
    /\ fs0 = fs
    /\ pc = "r_call"
    /\ cmd = NoCmd
    /\ log = <<>>
    /\ status = "running"
    /\ clock = 0
    /\ runs = 1
    /\ editor = <<>>

\* Lines 317-333: one call of get_default_editor.
ResolveEditor ==
    /\ pc = "r_call"
    /\ editor' = get_default_editor(fs)
    /\ pc' = "r_returned"
    /\ status' = "returned"
    /\ UNCHANGED <<fs, fs0, cmd, log, clock, runs>>

EditorNext == ResolveEditor

EditorSpec == EditorInit /\ [][EditorNext]_vars

IsRegularFile(f, p) == p \in DOMAIN f /\ f[p].kind = "file"

\* The first candidate, home directory expanded, that is a regular file;
\* the bare command name when there is none.
RECURSIVE FirstRegularFrom(_, _)
FirstRegularFrom(f, i) ==
    IF i > Len(editor_paths) THEN <<"nvim">>
    ELSE IF IsRegularFile(f, ExpandHome(editor_paths[i]))
         THEN ExpandHome(editor_paths[i])
         ELSE FirstRegularFrom(f, i + 1)

\* C4: get_default_editor returns the first of its four candidates, the home
\* directory expanded, that exists as a regular file, and the bare command
\* name "nvim" if and only if none of the expanded candidates exists as one;
\* it returns for every filesystem state.
C4_Resolver ==
    pc = "r_returned" =>
        /\ status = "returned"
        /\ editor = FirstRegularFrom(fs, 1)
        /\ (editor = <<"nvim">>) <=>
              (\A i \in 1..Len(editor_paths) :
                  ~IsRegularFile(fs, ExpandHome(editor_paths[i])))

(***************************************************************************)
(* The tool as a whole: invocations one after the other on one filesystem. *)
(* An invocation is main (lines 17-98) dispatching to one handler; each    *)
(* handler runs step by step, and every external process is spawned and    *)
(* then waited for.                                                        *)
(***************************************************************************)
\* What the user may pass on the command line.
ProcLanguages == {<<"x">>}
ProcTags == {<<>>, << <<"x">> >>}
SearchTerms == StringsOver({"x"}, MaxLen)

\* Exit codes of an external process: success and one failure.
ExitCodes == {0, 1}

\* What the user leaves in a file after an editor session.
UserText == <<"user text">>

CommandLines ==
    [name : {"create"}, language : ProcLanguages, tags : ProcTags]
        \cup [name : {"find"}, search_term : SearchTerms]
        \cup [name : {"list", "edit", "version", "languages", "unknown"}]

\* The first step of the handler main dispatches to (lines 66-97).
Entry(name) ==
    CASE name = "create" -> "c_root"
      [] name = "list" -> "l_check"
      [] name = "edit" -> "e_check"
      [] name = "find" -> "s_check"
      [] OTHER -> "m_print"

\* The filesystems an invocation may find: the snippet root absent, a
\* directory or a file; /usr/local/bin/nvim installed or not.
StartFilesystems ==
    LET nvim == editor_paths[Len(editor_paths)] IN
    {f \in UNION {[S -> {Dir, File(<<>>)}] : S \in SUBSET {snippet_dir, nvim}} :
        Exists(f, nvim) => f[nvim].kind = "file"}

Init ==
    /\ fs \in StartFilesystems
    /\ fs0 = fs
    /\ pc = "idle"
    /\ cmd = NoCmd
    /\ log = <<>>
    /\ status = "none"
    /\ clock = 0
    /\ runs = 0
    /\ editor = <<>>

\* A second passes between two invocations.
Tick ==
    /\ pc = "idle"
    /\ clock < MaxTick
    /\ clock' = clock + 1
    /\ UNCHANGED <<fs, fs0, pc, cmd, log, status, runs, editor>>

\* main, lines 17-66: the command line is parsed, the timestamp taken (line
\* 64, whatever the subcommand), and the handler chosen.
Invoke ==
    /\ pc = "idle"
    /\ runs < MaxRuns
    /\ \E c \in CommandLines :
          /\ cmd' = [timestamp |-> Timestamp(clock)] @@ c
          /\ pc' = Entry(c.name)
    /\ runs' = runs + 1
    /\ fs0' = fs
    /\ log' = <<>>
    /\ status' = "running"
    /\ editor' = <<>>
    /\ UNCHANGED <<fs, clock>>

\* main, lines 87-96: version, languages and the fallback arm only print.
PrintOnly ==
    /\ pc = "m_print"
    /\ log' = log \o <<Ev("print", cmd.name, <<>>, <<>>, 0)>>
    /\ status' = "returned"
    /\ pc' = "done"
    /\ UNCHANGED <<fs, fs0, cmd, clock, runs, editor>>

\* The process is gone; the filesystem stays.
Exit ==
    /\ pc = "done"
    /\ pc' = "idle"
    /\ cmd' = NoCmd
    /\ log' = <<>>
    /\ status' = "none"
    /\ editor' = <<>>
    /\ fs0' = fs
    /\ UNCHANGED <<fs, clock, runs>>

Panic(event) ==
    /\ log' = log \o <<event>>
    /\ status' = "panicked"
    /\ pc' = "done"

target == filename(cmd.language, cmd.tags, cmd.timestamp)

\* create_snippet, lines 105-111.
CreateEnsureRoot ==
    /\ pc = "c_root"
    /\ \/ /\ Exists(fs, snippet_dir)
          /\ pc' = "c_write"
          /\ UNCHANGED <<fs, log, status>>
       \/ /\ ~Exists(fs, snippet_dir)
          /\ fs' = CreateDirAll(fs, snippet_dir)
          /\ log' = log \o <<Ev("mkdir", "", <<>>, snippet_dir, 0),
                             Ev("print", "Directory created", <<>>, snippet_dir, 0)>>
          /\ pc' = "c_write"
          /\ UNCHANGED status
       \/ /\ ~Exists(fs, snippet_dir)     \* create_dir_all fails: unwrap panics
          /\ Panic(Ev("mkdir_failed", "", <<>>, snippet_dir, 0))
          /\ UNCHANGED fs
    /\ UNCHANGED <<fs0, cmd, clock, runs, editor>>

\* fs::write can succeed: the root is a directory and the target is not one.
Writable(f, p) ==
    /\ Exists(f, snippet_dir)
    /\ f[snippet_dir].kind = "dir"
    /\ Exists(f, p) => f[p].kind = "file"

\* The result of the write dropped: create goes on after a failure.
CreateWriteUnchecked ==
    /\ pc = "c_write"
    /\ \/ /\ Writable(fs, target)
          /\ fs' = WriteFile(fs, target, content(cmd.language, cmd.tags))
          /\ log' = log \o <<Ev("write", "", <<>>, target, 0),
                             Ev("print", "Snippet created", <<>>, target, 0)>>
       \/ /\ log' = log \o <<Ev("write_failed", "", <<>>, target, 0),
                             Ev("print", "Snippet created", <<>>, target, 0)>>
          /\ UNCHANGED fs
    /\ pc' = "c_editor"
    /\ UNCHANGED <<fs0, cmd, status, clock, runs, editor>>

\* create_snippet, lines 113-127.  A write that fails (no permission, a full
\* disk, a root that is no directory) panics at the unwrap; it may have
\* created or truncated the file before failing.
CreateWrite ==
    /\ pc = "c_write"
    /\ \/ /\ Writable(fs, target)
          /\ fs' = WriteFile(fs, target, content(cmd.language, cmd.tags))
          /\ log' = log \o <<Ev("write", "", <<>>, target, 0),
                             Ev("print", "Snippet created", <<>>, target, 0)>>
          /\ pc' = "c_editor"
          /\ UNCHANGED status
       \/ /\ Panic(Ev("write_failed", "", <<>>, target, 0))
          /\ UNCHANGED fs
       \/ /\ Writable(fs, target)
          /\ Panic(Ev("write_failed", "", <<>>, target, 0))
          /\ fs' = WriteFile(fs, target, <<>>)
    /\ UNCHANGED <<fs0, cmd, clock, runs, editor>>

\* Command::new(prog).arg(arg).status(), first half: the process starts, or
\* the spawn fails (no such program, not executable).
Started(prog, arg) == log' = log \o <<Ev("spawn", "", prog, arg, 0)>>
SpawnFailed(prog, arg) == log' = log \o <<Ev("spawn_failed", "", prog, arg, 0)>>

\* Second half: the process ends with an exit code.
Exited(prog, arg, code) == Ev("exit", "", prog, arg, code)

\* The user's session in the editor may rewrite the file p.
EditedBy(f, p) ==
    {f} \cup (IF Exists(f, p) /\ f[p].kind = "file"
              THEN {WriteFile(f, p, UserText)} ELSE {})

\* create_snippet, lines 130-131: the editor on the file, its result dropped.
CreateSpawnEditor ==
    /\ pc = "c_editor"
    /\ editor' = get_default_editor(fs)
    /\ \/ /\ Started(editor', target)
          /\ pc' = "c_editor_wait"
       \/ /\ SpawnFailed(editor', target)
          /\ pc' = "c_glow"
    /\ UNCHANGED <<fs, fs0, cmd, status, clock, runs>>

\* The editor's exit code checked: a failure ends create before the preview.
CreateWaitEditorChecked ==
    /\ pc = "c_editor_wait"
    /\ \E code \in ExitCodes :
          /\ log' = log \o <<Exited(editor, target, code)>>
          /\ pc' = (IF code = 0 THEN "c_glow" ELSE "done")
          /\ status' = (IF code = 0 THEN status ELSE "returned")
    /\ fs' \in EditedBy(fs, target)
    /\ UNCHANGED <<fs0, cmd, clock, runs, editor>>

CreateWaitEditor ==
    /\ pc = "c_editor_wait"
    /\ \E code \in ExitCodes : log' = log \o <<Exited(editor, target, code)>>
    /\ fs' \in EditedBy(fs, target)
    /\ pc' = "c_glow"
    /\ UNCHANGED <<fs0, cmd, status, clock, runs, editor>>

\* create_snippet, line 134: the preview on the file, its result dropped.
CreateSpawnGlow ==
    /\ pc = "c_glow"
    /\ \/ /\ Started(<<"glow">>, target)
          /\ pc' = "c_glow_wait"
          /\ UNCHANGED status
       \/ /\ SpawnFailed(<<"glow">>, target)
          /\ pc' = "done"
          /\ status' = "returned"
    /\ UNCHANGED <<fs, fs0, cmd, clock, runs, editor>>

CreateWaitGlow ==
    /\ pc = "c_glow_wait"
    /\ \E code \in ExitCodes : log' = log \o <<Exited(<<"glow">>, target, code)>>
    /\ status' = "returned"
    /\ pc' = "done"
    /\ UNCHANGED <<fs, fs0, cmd, clock, runs, editor>>

(***************************************************************************)
(* list_snippets, edit_snippet, find_in_files: a shell pipeline.           *)
(***************************************************************************)
\* The script of lines 145-158, the directory put in twice, the editor once.
list_script(dir, ed) ==
    <<"if [[ \"$2\" != \"\" ]]; then rga --files-with-matches $2 | fzf --sort --preview-window down:80%:wrap --preview 'glow --style=dark {}' else if [[ -d \"">>
        \o dir \o <<"\" ]]; then cd \"">> \o dir
        \o <<"\" && selected_article=$(fzf --exact --info=inline --border --margin=1 --padding=1 --sort --preview-window down:80%:wrap --preview 'glow --style=dark {}') ">>
        \o ed \o <<" $selected_article fi fi">>

\* The script of lines 183-190.
edit_script(dir, ed) ==
    <<"cd \"">> \o dir
        \o <<"\" IFS=$'\\n' files=($(fzf --exact --info=inline --border --margin=1 --padding=1 --sort --preview-window down:80%:wrap --preview 'glow --style=dark {}')) [[ -n \"$files\" ]] && ">>
        \o ed \o <<" \"${files[@]}\"">>

\* The script of lines 216-224, the search term put in twice.
find_script(dir, search_term, ed) ==
    <<"cd \"">> \o dir
        \o <<"\" && rg --files-with-matches --no-messages '">> \o search_term
        \o <<"' | fzf --sort --preview-window down:80%:wrap --preview \"rg --ignore-case --pretty --context 10 --colors 'match:bg:red' --colors 'match:fg:white' '">>
        \o search_term \o <<"' {}\" | xargs -r ">> \o ed

\* The missing root not reported.
RootMissingSilent ==
    /\ log' = log
    /\ status' = "returned"
    /\ pc' = "done"

\* Lines 170, 202, 240: the else branch of the three handlers.
RootMissing ==
    /\ log' = log \o <<Ev("print", "Snippet directory does not exist.", <<>>, <<>>, 0)>>
    /\ status' = "returned"
    /\ pc' = "done"

\* Command::new("bash").arg("-c").arg(script).status().expect(..): the shell
\* starts, or the spawn fails and expect panics.
SpawnShell(script, waiting) ==
    \/ /\ Started(<<"bash">>, script)
       /\ pc' = waiting
       /\ UNCHANGED status
    \/ Panic(Ev("spawn_failed", "", <<"bash">>, script, 0))

SnippetFiles(f) ==
    {p \in DOMAIN f : f[p].kind = "file" /\ StartsWith(p, NamePrefix)}

\* The pipeline ends in the editor on what the user selected: the user may
\* rewrite one snippet.
PipelineEdits(f) == {f} \cup {WriteFile(f, p, UserText) : p \in SnippetFiles(f)}

\* The test of the status negated.
success_inverted(code) == code # 0

\* status.success()
success(code) == code = 0

\* The shell ends; a failure is reported when its status is not a success.
WaitShell(script, complaint) ==
    /\ \E code \in ExitCodes :
          log' = log \o <<Exited(<<"bash">>, script, code)>>
                     \o (IF ~success(code)
                         THEN <<Ev("print", complaint, <<>>, <<>>, 0)>>
                         ELSE <<>>)
    /\ fs' \in PipelineEdits(fs)
    /\ status' = "returned"
    /\ pc' = "done"

\* list_snippets, lines 138-142 and 169-171.
ListCheck ==
    /\ pc = "l_check"
    /\ \/ /\ Exists(fs, snippet_dir)
          /\ editor' = get_default_editor(fs)
          /\ pc' = "l_spawn"
          /\ UNCHANGED <<log, status>>
       \/ /\ ~Exists(fs, snippet_dir)
          /\ RootMissing
          /\ UNCHANGED editor
    /\ UNCHANGED <<fs, fs0, cmd, clock, runs>>

\* list_snippets, lines 145-164.
ListSpawn ==
    /\ pc = "l_spawn"
    /\ SpawnShell(list_script(snippet_dir, editor), "l_wait")
    /\ UNCHANGED <<fs, fs0, cmd, clock, runs, editor>>

\* list_snippets, lines 160-168.
ListWait ==
    /\ pc = "l_wait"
    /\ WaitShell(list_script(snippet_dir, editor), "Failed to list snippets.")
    /\ UNCHANGED <<fs0, cmd, clock, runs, editor>>

\* edit_snippet, lines 176-180 and 201-203.
EditCheck ==
    /\ pc = "e_check"
    /\ \/ /\ Exists(fs, snippet_dir)
          /\ editor' = get_default_editor(fs)
          /\ pc' = "e_spawn"
          /\ UNCHANGED <<log, status>>
       \/ /\ ~Exists(fs, snippet_dir)
          /\ RootMissing
          /\ UNCHANGED editor
    /\ UNCHANGED <<fs, fs0, cmd, clock, runs>>

\* edit_snippet, lines 183-196.
EditSpawn ==
    /\ pc = "e_spawn"
    /\ SpawnShell(edit_script(snippet_dir, editor), "e_wait")
    /\ UNCHANGED <<fs, fs0, cmd, clock, runs, editor>>

\* edit_snippet, lines 192-200.
EditWait ==
    /\ pc = "e_wait"
    /\ WaitShell(edit_script(snippet_dir, editor), "Failed to edit snippets.")
    /\ UNCHANGED <<fs0, cmd, clock, runs, editor>>

\* find_in_files, lines 210-214 and 239-241: the editor is resolved before
\* the root is looked for.
FindCheck ==
    /\ pc = "s_check"
    /\ editor' = get_default_editor(fs)
    /\ \/ /\ Exists(fs, snippet_dir)
          /\ pc' = "s_spawn"
          /\ UNCHANGED <<log, status>>
       \/ /\ ~Exists(fs, snippet_dir)
          /\ RootMissing
    /\ UNCHANGED <<fs, fs0, cmd, clock, runs>>

\* find_in_files, lines 216-230.
FindSpawn ==
    /\ pc = "s_spawn"
    /\ SpawnShell(find_script(snippet_dir, cmd.search_term, editor), "s_wait")
    /\ UNCHANGED <<fs, fs0, cmd, clock, runs, editor>>

\* find_in_files, lines 226-238.
FindWait ==
    /\ pc = "s_wait"
    /\ WaitShell(find_script(snippet_dir, cmd.search_term, editor),
                 "Failed to find or open files with the term.")
    /\ UNCHANGED <<fs0, cmd, clock, runs, editor>>

Next ==
    \/ Tick
    \/ Invoke
    \/ PrintOnly
    \/ Exit
    \/ CreateEnsureRoot
    \/ CreateWrite
    \/ CreateSpawnEditor
    \/ CreateWaitEditor
    \/ CreateSpawnGlow
    \/ CreateWaitGlow
    \/ ListCheck
    \/ ListSpawn
    \/ ListWait
    \/ EditCheck
    \/ EditSpawn
    \/ EditWait
    \/ FindCheck
    \/ FindSpawn
    \/ FindWait

Spec == Init /\ [][Next]_vars

(***************************************************************************)
(* Claims about the handlers, checked under Spec.                          *)
(***************************************************************************)
Printed(msg) == \E i \in Events("print") : log[i].msg = msg
SpawnAttempts == Events("spawn") \cup Events("spawn_failed")
IsPipeline == cmd.name \in {"list", "edit", "find"}
Finished == pc = "done"

Complaint ==
    CASE cmd.name = "list" -> "Failed to list snippets."
      [] cmd.name = "edit" -> "Failed to edit snippets."
      [] cmd.name = "find" -> "Failed to find or open files with the term."

\* C5: when the snippet root does not exist, list_snippets, edit_snippet and
\* find_in_files spawn no process, print "Snippet directory does not exist.",
\* leave the filesystem as it was (the root is not created) and return.
C5_MissingRoot ==
    (IsPipeline /\ ~Exists(fs0, snippet_dir)) =>
        /\ SpawnAttempts = {}
        /\ fs = fs0
        /\ status # "panicked"
        /\ Finished =>
              /\ status = "returned"
              /\ Len(log) = 1
              /\ Printed("Snippet directory does not exist.")

C5_Witness ==
    /\ Finished
    /\ cmd.name = "find"
    /\ ~Exists(fs, snippet_dir)
    /\ Printed("Snippet directory does not exist.")
    /\ status = "returned"

\* The log from index i on is one process, spawned on the target and waited
\* for, or one spawn that failed; the index after it.
AfterProcess(prog, i) ==
    IF i <= Len(log) /\ log[i].ev = "spawn" THEN i + 2 ELSE i + 1

ProcessAt(prog, i) ==
    /\ i <= Len(log)
    /\ log[i].ev \in {"spawn", "spawn_failed"}
    /\ log[i].prog = prog
    /\ log[i].arg = target
    /\ log[i].ev = "spawn" =>
          /\ i + 1 <= Len(log)
          /\ log[i + 1].ev = "exit"
          /\ log[i + 1].prog = prog

\* C6: a create whose write succeeded did, in this order and nothing else:
\* create the root and report it (only when the root was absent), write the
\* file and report it, spawn the resolved editor on the file and wait for
\* it, spawn the preview on the file and wait for it; the preview is spawned
\* whatever the editor's exit code or spawn failure, and create returns
\* whatever the exit codes.
C6_CreateOrder ==
    (Finished /\ cmd.name = "create" /\ Printed("Snippet created")) =>
        LET base == IF Exists(fs0, snippet_dir) THEN 0 ELSE 2
            e == base + 3
            g == AfterProcess(editor, e)
        IN  /\ status = "returned"
            /\ Events("mkdir") = (IF base = 2 THEN {1} ELSE {})
            /\ base = 2 => log[2] = Ev("print", "Directory created", <<>>, snippet_dir, 0)
            /\ log[base + 1] = Ev("write", "", <<>>, target, 0)
            /\ log[base + 2] = Ev("print", "Snippet created", <<>>, target, 0)
            /\ editor = get_default_editor(fs0)
            /\ ProcessAt(editor, e)
            /\ ProcessAt(<<"glow">>, g)
            /\ Len(log) = AfterProcess(<<"glow">>, g) - 1

C6_Witness ==
    /\ Finished
    /\ cmd.name = "create"
    /\ status = "returned"
    /\ ~Exists(fs0, snippet_dir)
    /\ Len(log) = 8
    /\ log[6] = Exited(editor, target, 1)
    /\ log[7].ev = "spawn"
    /\ log[8] = Exited(<<"glow">>, target, 1)

\* C7: when the write of create_snippet fails the process panics there:
\* "Snippet created" is not printed, no editor and no preview is spawned,
\* nothing follows the failure, and a root created by the same invocation stays.
C7_WriteFailure ==
    Events("write_failed") # {} =>
        /\ status = "panicked"
        /\ Finished
        /\ ~Printed("Snippet created")
        /\ SpawnAttempts = {}
        /\ Events("write_failed") = {Len(log)}
        /\ Events("mkdir") # {} =>
              /\ Exists(fs, snippet_dir)
              /\ fs[snippet_dir] = Dir

C7_Witness ==
    /\ Events("write_failed") # {}
    /\ Events("mkdir") # {}
    /\ ~Exists(fs0, snippet_dir)
    /\ Exists(fs, snippet_dir)
    /\ status = "panicked"

UserSession == pc \in {"c_editor_wait", "l_wait", "e_wait", "s_wait"}

\* The snippets that were written in full, by the tool or by the user.
Snippets(f) == {p \in SnippetFiles(f) : f[p].content # <<>>}

\* C9 as stated: a snippet file is written once and the tool never writes it
\* again: no write of create that succeeds changes a snippet that is already
\* there, two creates in the same second with the same language and tags included.
C9_NeverRewrites ==
    [][(pc = "c_write" /\ pc' = "c_editor") =>
          \A p \in Snippets(fs) : p \in DOMAIN fs' /\ fs'[p] = fs[p]]_vars

\* C9 amended: the only snippet file a step of the tool writes is the one at
\* the path of the running create; every other snippet file keeps its
\* content, and list, edit, find, version and languages write none.  A create
\* whose path is that of an existing snippet (the same second, language and
\* tags) replaces it: there is no check for an existing file.
C9_WritesOnlyItsOwnPath ==
    [][~UserSession =>
          \A p \in SnippetFiles(fs) :
              ~(pc = "c_write" /\ p = ExpectedPath(cmd))
                  => (p \in DOMAIN fs' /\ fs'[p] = fs[p])]_vars

C9_Witness ==
    /\ pc = "c_editor"
    /\ \E p \in SnippetFiles(fs0) :
          /\ p # target
          /\ fs0[p].content = UserText
          /\ fs[p] = fs0[p]
    /\ target \notin DOMAIN fs0
    /\ fs[target].content = content(cmd.language, cmd.tags)

\* C10: find_in_files with an empty search term is stopped before the shell
\* pipeline is dispatched; the empty term is not handed to the search tool.
C10_EmptyTermIntercepted ==
    (cmd.name = "find" /\ cmd.search_term = <<>>) => SpawnAttempts = {}

====
